---- MODULE Spec2Model ----
(***************************************************************************)
(* Model of the UDP publish/subscribe broker smbbroker.c.                  *)
(*                                                                         *)
(* C strings are modelled as sequences of one-character strings.  A char   *)
(* pointer that may be NULL is modelled as a sequence of length 0 (NULL)   *)
(* or of length 1 (<<s>>, a pointer to the string s).                      *)
(*                                                                         *)
(* The log file is assumed to have been opened; logging has no effect on   *)
(* the state modelled here.                                                *)
(***************************************************************************)
EXTENDS Integers, Sequences, FiniteSets, TLC

VARIABLES
  topic_subs_map,  \* the global map: slot -> [topic, sub_addresses]
  map_before,      \* history: the map when this iteration's datagram arrived
  crashed,         \* TRUE once the process has been terminated by a fault
  buffer,          \* the datagram handled in this loop iteration
  client_addr,     \* the source address of that datagram
  handler,         \* the branch of the dispatch this iteration took,
                   \* "none" while the loop is blocked in recvfrom
  ret,             \* the handler's return value (NoRet when none returned)
  sent,            \* the sendto calls of this iteration, in order
  subscribed       \* history: <<endpoint, topic>> pairs whose last
                   \* successful subscribe/unsubscribe was a subscribe

vars == <<topic_subs_map, map_before, crashed, buffer, client_addr, handler,
          ret, sent, subscribed>>

----------------------------------------------------------------------------
(* Program constants *)

TOPIC_LENGTH == 20
SUB_ADDRESSES_LENGTH == 10
TOPIC_SUBS_MAP_LENGTH == 10
INDEX_WILDCARD_TOPIC == 0
\* sizeof(const char *) in find_topic_sub, for a 64-bit build
PointerSize == 8
\* INADDR_NONE, (in_addr_t) -1: all 32 bits set
empty_address == 0 - 1

msg_delim == "!"
topic_wildcard == "#"
empty_topic == <<>>
method_publish == <<"P", "U", "B", "!">>
method_subscribe == <<"S", "U", "B", "!">>
method_unsubscribe == <<"U", "N", "S", "U", "B", "!">>

NULL == <<>>
Ptr(s) == <<s>>
Deref(p) == p[1]

\* find_topic_sub's NULL result, as a slot index
NoEntry == 0 - 1
\* no handler returned in this iteration
NoRet == 0 - 1

SubIdx == 0 .. (SUB_ADDRESSES_LENGTH - 1)
MapIdx == 0 .. (TOPIC_SUBS_MAP_LENGTH - 1)

----------------------------------------------------------------------------
(* libc string functions *)

Min(a, b) == IF a < b THEN a ELSE b

\* the first n characters of s (all of s when it is shorter)
Take(s, n) == SubSeq(s, 1, Min(Len(s), n))

\* strncmp(a, b, n) == 0
strncmp_eq(a, b, n) == Take(a, n) = Take(b, n)

\* strchr(s, c) != NULL
strchr_found(s, c) == \E i \in 1 .. Len(s) : s[i] = c

\* index of the first character of s at or after position i that is (not) in
\* the delimiter set, Len(s) + 1 when there is none
RECURSIVE FirstNotIn(_, _, _)
FirstNotIn(s, delims, i) ==
  IF i > Len(s) THEN i
  ELSE IF s[i] \in delims THEN FirstNotIn(s, delims, i + 1)
  ELSE i

RECURSIVE FirstIn(_, _, _)
FirstIn(s, delims, i) ==
  IF i > Len(s) THEN i
  ELSE IF s[i] \in delims THEN i
  ELSE FirstIn(s, delims, i + 1)

\* One strtok call on the not yet consumed rest of the string: skips leading
\* delimiters, returns NULL at the end of the string, else the token up to
\* the next delimiter and the rest after that delimiter.
strtok(rest, delims) ==
  LET b == FirstNotIn(rest, delims, 1)
      e == FirstIn(rest, delims, b)
  IN  IF b > Len(rest)
      THEN [token |-> NULL, rest |-> <<>>]
      ELSE [token |-> Ptr(SubSeq(rest, b, e - 1)),
            rest  |-> SubSeq(rest, e + 1, Len(rest))]

----------------------------------------------------------------------------
(* Addresses *)

\* set_addr_empty
EmptyAddr == [s_addr |-> empty_address, sin_port |-> 0]

\* mutant of is_same_address: the ports are not compared
is_same_address_IpOnly(addr1, addr2) ==
  addr1.s_addr = addr2.s_addr

\* mutant of is_same_address: the port is compared with the other address's
\* IP
is_same_address_PortAgainstIp(addr1, addr2) ==
  addr1.s_addr = addr2.s_addr /\ addr1.sin_port = addr2.s_addr

is_same_address(addr1, addr2) ==
  addr1.s_addr = addr2.s_addr /\ addr1.sin_port = addr2.sin_port

\* the test "sin_addr.s_addr != empty_address" of the loops over a slot array
Occupied(addr) == addr.s_addr # empty_address

----------------------------------------------------------------------------
(* The topic directory *)

\* the occupied subscriber addresses of slot i, in array order
OccupiedSubs(m, i) ==
  SelectSeq([k \in 1 .. SUB_ADDRESSES_LENGTH |-> m[i].sub_addresses[k - 1]],
            Occupied)

\* mutant of remove_unused_topic: the slot is freed without looking at its
\* subscriber slots
remove_unused_topic_NoCheck(m, i) ==
  [m EXCEPT ![i].topic = empty_topic]

\* remove_unused_topic: the map after the call on slot i
remove_unused_topic(m, i) ==
  IF \E k \in SubIdx : m[i].sub_addresses[k].s_addr # empty_address
  THEN m
  ELSE [m EXCEPT ![i].topic = empty_topic]

\* the comparison of find_topic_sub's loop
TopicMatches(stored, topic) == strncmp_eq(stored, topic, PointerSize)

\* find_topic_sub: the index of the slot returned, NoEntry for NULL
find_topic_sub(m, topic) ==
  LET hits == {i \in MapIdx : TopicMatches(m[i].topic, topic)}
  IN  IF hits = {} THEN NoEntry
      ELSE CHOOSE i \in hits : \A j \in hits : i <= j

\* mutant of find_or_insert_topic_sub: the search for the topic is left out
find_or_insert_topic_sub_NoFind(m, topic) ==
  LET free == {i \in MapIdx : Len(m[i].topic) = 0}
  IN  IF free # {}
      THEN LET i == CHOOSE i \in free : \A j \in free : i <= j
           IN  [idx |-> i, map |-> [m EXCEPT ![i].topic = topic]]
      ELSE [idx |-> NoEntry, map |-> m]

\* find_or_insert_topic_sub: the slot returned (NoEntry for NULL) and the map
\* after the call
find_or_insert_topic_sub(m, topic) ==
  LET found == find_topic_sub(m, topic)
      free  == {i \in MapIdx : Len(m[i].topic) = 0}
  IN  IF found # NoEntry THEN [idx |-> found, map |-> m]
      ELSE IF free # {}
      THEN LET i == CHOOSE i \in free : \A j \in free : i <= j
           IN  [idx |-> i, map |-> [m EXCEPT ![i].topic = topic]]
      ELSE [idx |-> NoEntry, map |-> m]

\* mutant of validate_topic: the length test is off by one
validate_topic_LengthOffByOne(topic, wildcardAllowed) ==
  IF Len(topic) = 0 THEN 1
  ELSE IF Len(topic) > TOPIC_LENGTH THEN 1
  ELSE IF strchr_found(topic, msg_delim) THEN 1
  ELSE IF ~wildcardAllowed /\ strchr_found(topic, topic_wildcard) THEN 1
  ELSE 0

\* validate_topic, for a topic that is not NULL
validate_topic(topic, wildcardAllowed) ==
  IF Len(topic) = 0 THEN 1
  ELSE IF Len(topic) >= TOPIC_LENGTH THEN 1
  ELSE IF strchr_found(topic, msg_delim) THEN 1
  ELSE IF ~wildcardAllowed /\ strchr_found(topic, topic_wildcard) THEN 1
  ELSE 0

----------------------------------------------------------------------------
(* Request parsing, as the handlers do it *)

\* handle_publish: strtok(request, "!"); topic = strtok(NULL, "!");
\* message = strtok(NULL, "")
PublishTopic(request) ==
  strtok(strtok(request, {msg_delim}).rest, {msg_delim}).token

PublishMessage(request) ==
  strtok(strtok(strtok(request, {msg_delim}).rest, {msg_delim}).rest,
         {}).token

\* handle_subscribe, handle_unsubscribe: strtok(request, "!");
\* topic = strtok(NULL, "")
SubscribeTopic(request) ==
  strtok(strtok(request, {msg_delim}).rest, {}).token

----------------------------------------------------------------------------
(* Handlers.  Each operator gives the outcome of one call: fault is TRUE    *)
(* when the call passes a NULL pointer to strlen or strchr (undefined       *)
(* behaviour), otherwise ret is the return value, map the directory after   *)
(* the call and dests the addresses send_message is called with, in order.  *)

Outcome(f, r, m, d) == [fault |-> f, ret |-> r, map |-> m, dests |-> d]

\* mutant of handle_publish: the entry is looked up with
\* find_or_insert_topic_sub
handle_publish_CreatesEntry(request, m) ==
  LET topic   == PublishTopic(request)
      message == PublishMessage(request)
  IN  IF topic = NULL THEN Outcome(TRUE, NoRet, m, <<>>)
      ELSE IF validate_topic(Deref(topic), FALSE) # 0
      THEN Outcome(FALSE, 1, m, <<>>)
      ELSE IF message = NULL THEN Outcome(TRUE, NoRet, m, <<>>)
      ELSE IF strchr_found(Deref(message), msg_delim)
      THEN Outcome(FALSE, 1, m, <<>>)
      ELSE LET wild == OccupiedSubs(m, INDEX_WILDCARD_TOPIC)
               fi   == find_or_insert_topic_sub(m, Deref(topic))
           IN  IF fi.idx = NoEntry
               THEN Outcome(FALSE, 0, fi.map, wild)
               ELSE Outcome(FALSE, 0, fi.map,
                            wild \o OccupiedSubs(fi.map, fi.idx))

handle_publish(request, m) ==
  LET topic   == PublishTopic(request)
      message == PublishMessage(request)
  IN  IF topic = NULL THEN Outcome(TRUE, NoRet, m, <<>>)
      ELSE IF validate_topic(Deref(topic), FALSE) # 0
      THEN Outcome(FALSE, 1, m, <<>>)
      ELSE IF message = NULL THEN Outcome(TRUE, NoRet, m, <<>>)
      ELSE IF strchr_found(Deref(message), msg_delim)
      THEN Outcome(FALSE, 1, m, <<>>)
      ELSE LET wild  == OccupiedSubs(m, INDEX_WILDCARD_TOPIC)
               found == find_topic_sub(m, Deref(topic))
           IN  IF found = NoEntry
               THEN Outcome(FALSE, 0, m, wild)
               ELSE Outcome(FALSE, 0, m, wild \o OccupiedSubs(m, found))

\* mutant of AddSubscriber: the search for the address is left out
AddSubscriber_NoSearch(m, i, sub_address) ==
  LET free == {k \in SubIdx : m[i].sub_addresses[k].s_addr = empty_address}
  IN  IF free # {}
      THEN LET k == CHOOSE k \in free : \A j \in free : k <= j
           IN  Outcome(FALSE, 0,
                       [m EXCEPT ![i].sub_addresses[k] = sub_address], <<>>)
      ELSE Outcome(FALSE, 1, m, <<>>)

\* mutant of AddSubscriber: with no free slot, the first slot is overwritten
AddSubscriber_FullOverwrites(m, i, sub_address) ==
  LET free == {k \in SubIdx : m[i].sub_addresses[k].s_addr = empty_address}
  IN  IF \E k \in SubIdx : is_same_address(m[i].sub_addresses[k], sub_address)
      THEN Outcome(FALSE, 0, m, <<>>)
      ELSE IF free # {}
      THEN LET k == CHOOSE k \in free : \A j \in free : k <= j
           IN  Outcome(FALSE, 0,
                       [m EXCEPT ![i].sub_addresses[k] = sub_address], <<>>)
      ELSE Outcome(FALSE, 0,
                   [m EXCEPT ![i].sub_addresses[0] = sub_address], <<>>)

\* the loops of handle_subscribe over the slots of entry i
AddSubscriber(m, i, sub_address) ==
  LET free == {k \in SubIdx : m[i].sub_addresses[k].s_addr = empty_address}
  IN  IF \E k \in SubIdx : is_same_address(m[i].sub_addresses[k], sub_address)
      THEN Outcome(FALSE, 0, m, <<>>)
      ELSE IF free # {}
      THEN LET k == CHOOSE k \in free : \A j \in free : k <= j
           IN  Outcome(FALSE, 0,
                       [m EXCEPT ![i].sub_addresses[k] = sub_address], <<>>)
      ELSE Outcome(FALSE, 1, m, <<>>)

handle_subscribe(request, sub_address, m) ==
  LET topic == SubscribeTopic(request)
  IN  IF topic = NULL THEN Outcome(TRUE, NoRet, m, <<>>)
      ELSE IF validate_topic(Deref(topic), TRUE) # 0
      THEN Outcome(FALSE, 1, m, <<>>)
      ELSE LET fi == find_or_insert_topic_sub(m, Deref(topic))
           IN  IF fi.idx = NoEntry THEN Outcome(FALSE, 1, fi.map, <<>>)
               ELSE AddSubscriber(fi.map, fi.idx, sub_address)

\* mutant of RemoveSubscriber: remove_unused_topic is not called
RemoveSubscriber_NoReclaim(m, i, sub_address) ==
  LET hits == {k \in SubIdx :
                 is_same_address(m[i].sub_addresses[k], sub_address)}
  IN  IF hits = {} THEN m
      ELSE LET k == CHOOSE k \in hits : \A j \in hits : k <= j
           IN  [m EXCEPT ![i].sub_addresses[k] = EmptyAddr]

\* the loop of handle_unsubscribe over the slots of entry i
RemoveSubscriber(m, i, sub_address) ==
  LET hits == {k \in SubIdx :
                 is_same_address(m[i].sub_addresses[k], sub_address)}
  IN  IF hits = {} THEN m
      ELSE LET k == CHOOSE k \in hits : \A j \in hits : k <= j
           IN  remove_unused_topic(
                 [m EXCEPT ![i].sub_addresses[k] = EmptyAddr], i)

handle_unsubscribe(request, sub_address, m) ==
  LET topic == SubscribeTopic(request)
  IN  IF topic = NULL THEN Outcome(TRUE, NoRet, m, <<>>)
      ELSE IF validate_topic(Deref(topic), TRUE) # 0
      THEN Outcome(FALSE, 1, m, <<>>)
      ELSE LET found == find_topic_sub(m, Deref(topic))
           IN  IF found = NoEntry THEN Outcome(FALSE, 0, m, <<>>)
               ELSE Outcome(FALSE, 0,
                            RemoveSubscriber(m, found, sub_address), <<>>)

----------------------------------------------------------------------------
(* The environment: clients and the datagrams they send *)

\* bounds of the model
NumClients == 2
MaxSendFailures == 1

ClientList ==
  << [s_addr |-> 1, sin_port |-> 1], [s_addr |-> 1, sin_port |-> 2],
     [s_addr |-> 2, sin_port |-> 1], [s_addr |-> 2, sin_port |-> 2] >>

\* source addresses of received datagrams; never the broadcast address
\* INADDR_NONE, which the IP stack rejects as a source
Clients == {ClientList[i] : i \in 1 .. Min(NumClients, Len(ClientList))}

Wildcard == <<"#">>
TopicA == <<"a">>
TopicB == <<"b">>
\* two names that agree in their first PointerSize characters
TopicL1 == <<"w", "e", "a", "t", "h", "e", "r", "0", "1">>
TopicL2 == <<"w", "e", "a", "t", "h", "e", "r", "0", "2">>
\* TOPIC_LENGTH characters: one more than fits
TopicTooLong == [i \in 1 .. TOPIC_LENGTH |-> "x"]
TopicWithDelim == <<"a", "!", "b">>
TopicWithWildcard == <<"a", "#">>

Payload == <<"h", "i">>
PayloadWithDelim == <<"h", "!", "i">>

\* topics a client program may name in a request
\* what a client puts after "SUB!" or "UNSUB!"
SubscribeFields(topics) == topics \cup {<<>>, TopicTooLong, TopicWithDelim}

\* what a client puts after "PUB!"
PublishBodies(topics) ==
  {t \o <<msg_delim>> \o p :
     t \in topics \cup {Wildcard, TopicWithWildcard, TopicTooLong},
     p \in {Payload, PayloadWithDelim}}
  \cup {<<>>, TopicA, TopicA \o <<msg_delim>>,
        <<msg_delim>> \o TopicA \o <<msg_delim>> \o Payload}

OtherDatagrams ==
  {<<"U", "N", "S", "U", "X", "!">> \o TopicA, <<"U", "N", "S", "U">>,
   <<"G", "E", "T", "!">> \o TopicA, <<>>}

\* Spec: one ordinary topic, the wildcard topic, a topic nobody subscribes
\* to, and every malformed request
Datagrams ==
  {method_publish \o b : b \in PublishBodies({TopicA, TopicB})}
  \cup {method_subscribe \o t : t \in SubscribeFields({Wildcard, TopicA})}
  \cup {method_unsubscribe \o t : t \in SubscribeFields({Wildcard, TopicA})}
  \cup OtherDatagrams

\* SpecPrefix: two topic names with a common prefix of PointerSize characters
PrefixDatagrams ==
  {method_publish \o t \o <<msg_delim>> \o Payload : t \in {TopicL1, TopicL2}}
  \cup {method_subscribe \o t : t \in {TopicL1, TopicL2}}
  \cup {method_unsubscribe \o t : t \in {TopicL1, TopicL2}}
  \cup {<<"G", "E", "T", "!">> \o TopicA}

----------------------------------------------------------------------------
(* The broker process *)

\* main, before the receive loop
InitialMap ==
  [i \in MapIdx |->
     [topic |-> IF i = INDEX_WILDCARD_TOPIC THEN Wildcard ELSE empty_topic,
      sub_addresses |-> [k \in SubIdx |-> EmptyAddr]]]

Init ==
  /\ topic_subs_map = InitialMap
  /\ map_before = InitialMap
  /\ crashed = FALSE
  /\ buffer = <<>>
  /\ client_addr = EmptyAddr
  /\ handler = "none"
  /\ ret = NoRet
  /\ sent = <<>>
  /\ subscribed = {}

\* the if/else chain of main's loop
Dispatch(buf) ==
  IF strncmp_eq(buf, method_publish, Len(method_publish)) THEN "publish"
  ELSE IF strncmp_eq(buf, method_subscribe, Len(method_subscribe))
  THEN "subscribe"
  ELSE IF strncmp_eq(buf, method_unsubscribe, Len(method_subscribe))
  THEN "unsubscribe"
  ELSE "invalid"

\* the sets of sendto calls that may fail among n calls
FailSets(n) ==
  {F \in SUBSET (1 .. n) : Cardinality(F) <= MaxSendFailures}

\* mutant of SendAll: the first failed call ends the loop
SendAll_StopsAtFailure(message, dests, F) ==
  LET last == IF F \cap (1 .. Len(dests)) = {} THEN Len(dests)
              ELSE CHOOSE i \in F \cap (1 .. Len(dests)) :
                     \A j \in F \cap (1 .. Len(dests)) : i <= j
  IN  [i \in 1 .. last |->
         [message |-> message, dest |-> dests[i], ok |-> i \notin F]]

\* send_message for each destination in turn; the calls in F fail
SendAll(message, dests, F) ==
  [i \in 1 .. Len(dests) |->
     [message |-> message, dest |-> dests[i], ok |-> i \notin F]]

\* mutant of AtReceive: recvfrom may return at any point of the loop body
AtReceive_AnyPosition == ~crashed

\* the loop is blocked in recvfrom
AtReceive == ~crashed /\ handler = "none"

\* recvfrom delivered buf from addr
Received(buf, addr, h) ==
  /\ AtReceive
  /\ Dispatch(buf) = h
  /\ map_before' = topic_subs_map
  /\ buffer' = buf
  /\ client_addr' = addr
  /\ handler' = h

\* the call dereferenced a NULL pointer: the process is killed, or the read
\* yields an empty string and the request is rejected
Fault ==
  /\ \E c \in BOOLEAN :
       /\ crashed' = c
       /\ ret' = IF c THEN NoRet ELSE 1
  /\ sent' = <<>>
  /\ UNCHANGED <<topic_subs_map, subscribed>>

HandlePublish(buf, addr) ==
  /\ Received(buf, addr, "publish")
  /\ LET out == handle_publish(buf, topic_subs_map)
     IN  IF out.fault THEN Fault
         ELSE /\ topic_subs_map' = out.map
              /\ ret' = out.ret
              /\ \E F \in FailSets(Len(out.dests)) :
                   sent' = SendAll(IF out.dests = <<>> THEN <<>>
                                   ELSE Deref(PublishMessage(buf)),
                                   out.dests, F)
              /\ UNCHANGED <<crashed, subscribed>>

\* mutant of HandleSubscribe: a successful subscribe is acknowledged with a
\* datagram to the subscriber
HandleSubscribe_SendsAck(buf, addr) ==
  /\ Received(buf, addr, "subscribe")
  /\ LET out == handle_subscribe(buf, addr, topic_subs_map)
     IN  IF out.fault THEN Fault
         ELSE /\ topic_subs_map' = out.map
              /\ ret' = out.ret
              /\ sent' = IF out.ret = 0
                         THEN <<[message |-> <<>>, dest |-> addr, ok |-> TRUE]>>
                         ELSE <<>>
              /\ subscribed' =
                   IF out.ret = 0
                   THEN subscribed \cup {<<addr, Deref(SubscribeTopic(buf))>>}
                   ELSE subscribed
              /\ UNCHANGED crashed

HandleSubscribe(buf, addr) ==
  /\ Received(buf, addr, "subscribe")
  /\ LET out == handle_subscribe(buf, addr, topic_subs_map)
     IN  IF out.fault THEN Fault
         ELSE /\ topic_subs_map' = out.map
              /\ ret' = out.ret
              /\ sent' = <<>>
              /\ subscribed' =
                   IF out.ret = 0
                   THEN subscribed \cup {<<addr, Deref(SubscribeTopic(buf))>>}
                   ELSE subscribed
              /\ UNCHANGED crashed

HandleUnsubscribe(buf, addr) ==
  /\ Received(buf, addr, "unsubscribe")
  /\ LET out == handle_unsubscribe(buf, addr, topic_subs_map)
     IN  IF out.fault THEN Fault
         ELSE /\ topic_subs_map' = out.map
              /\ ret' = out.ret
              /\ sent' = <<>>
              /\ subscribed' =
                   IF out.ret = 0
                   THEN subscribed \ {<<addr, Deref(SubscribeTopic(buf))>>}
                   ELSE subscribed
              /\ UNCHANGED crashed

\* the else branch of the dispatch
InvalidMethod(buf, addr) ==
  /\ Received(buf, addr, "invalid")
  /\ ret' = NoRet
  /\ sent' = <<>>
  /\ UNCHANGED <<topic_subs_map, crashed, subscribed>>

\* recvfrom returned a negative count
ReceiveFailed ==
  /\ AtReceive
  /\ handler' = "recv_failed"
  /\ ret' = NoRet
  /\ sent' = <<>>
  /\ UNCHANGED <<topic_subs_map, map_before, crashed, buffer, client_addr,
                 subscribed>>

\* the end of the loop body: back to recvfrom, which overwrites buffer and
\* client_addr before they are read again
NextIteration ==
  /\ ~crashed
  /\ handler # "none"
  /\ buffer' = <<>>
  /\ client_addr' = EmptyAddr
  /\ handler' = "none"
  /\ ret' = NoRet
  /\ sent' = <<>>
  /\ map_before' = topic_subs_map
  /\ UNCHANGED <<topic_subs_map, crashed, subscribed>>

\* one loop iteration on a datagram of D from a client of C
NextOver(D, C) ==
  \/ \E buf \in D, addr \in C : HandlePublish(buf, addr)
  \/ \E buf \in D, addr \in C : HandleSubscribe(buf, addr)
  \/ \E buf \in D, addr \in C : HandleUnsubscribe(buf, addr)
  \/ \E buf \in D, addr \in C : InvalidMethod(buf, addr)
  \/ ReceiveFailed
  \/ NextIteration

Next == NextOver(Datagrams, Clients)

Spec == Init /\ [][Next]_vars

NextPrefix == NextOver(PrefixDatagrams, Clients)

SpecPrefix == Init /\ [][NextPrefix]_vars

----------------------------------------------------------------------------
(* SpecFull: the broker after a run of subscribe requests that fills every  *)
(* slot of the map and every subscriber slot of the last entry              *)

Digits == <<"1", "2", "3", "4", "5", "6", "7", "8", "9">>

\* the topic of the i-th filling request; the first shares its first
\* PointerSize characters with TopicL2
FullTopic(i) == IF i = 1 THEN TopicL1 ELSE <<"t", Digits[i]>>

\* hosts other than those of ClientList
Filler(k) == [s_addr |-> 10 + k, sin_port |-> 1]

LastSlot == TOPIC_SUBS_MAP_LENGTH - 1

\* ClientList[1] subscribes to one topic per slot but the last
FillSlots ==
  [i \in 1 .. (LastSlot - 1) |->
     [buf |-> method_subscribe \o FullTopic(i), addr |-> ClientList[1]]]

\* then SUB_ADDRESSES_LENGTH hosts subscribe to the topic of the last slot
FillEntry ==
  [k \in 1 .. SUB_ADDRESSES_LENGTH |->
     [buf |-> method_subscribe \o FullTopic(LastSlot), addr |-> Filler(k)]]

FillRequests == FillSlots \o FillEntry

\* the map after the first n of the requests reqs have been handled,
\* starting from the map m
RECURSIVE ReplayMap(_, _, _)
ReplayMap(m, reqs, n) ==
  IF n = 0 THEN m
  ELSE LET prev == ReplayMap(m, reqs, n - 1)
       IN  \* the test makes TLC compute prev before it evaluates the call
           IF DOMAIN prev = MapIdx
           THEN handle_subscribe(reqs[n].buf, reqs[n].addr, prev).map
           ELSE prev

SlotsFilledMap == ReplayMap(InitialMap, FillSlots, Len(FillSlots))

FullMap == ReplayMap(SlotsFilledMap, FillEntry, Len(FillEntry))

InitFull ==
  /\ topic_subs_map = FullMap
  /\ map_before = FullMap
  /\ crashed = FALSE
  /\ buffer = <<>>
  /\ client_addr = EmptyAddr
  /\ handler = "none"
  /\ ret = NoRet
  /\ sent = <<>>
  /\ subscribed =
       {<<FillRequests[n].addr, Deref(SubscribeTopic(FillRequests[n].buf))>> :
          n \in 1 .. Len(FillRequests)}

\* a host that is in the full entry, and one that is not
FullClients == {Filler(1), ClientList[1]}

FullDatagrams ==
  {m \o t : m \in {method_subscribe, method_unsubscribe},
            t \in {FullTopic(LastSlot - 1), FullTopic(LastSlot), TopicA,
                   TopicL2}}
  \cup {method_publish \o FullTopic(LastSlot) \o <<msg_delim>> \o Payload,
        <<"G", "E", "T", "!">> \o TopicA}

NextFull == NextOver(FullDatagrams, FullClients)

SpecFull == InitFull /\ [][NextFull]_vars

----------------------------------------------------------------------------
(* SpecSteps: the loop body cut at each access to the map.  handler holds   *)
(* the position of the process inside the handler: "at_<h>" on entry to the *)
(* handler, "subscribe_slots" after find_or_insert_topic_sub,               *)
(* "unsubscribe_reclaim" before remove_unused_topic, "publish_topic" after  *)
(* the loop over the wildcard entry, and the handler's name once it has     *)
(* returned.                                                                *)

StepsDatagrams ==
  {method_subscribe \o t : t \in {Wildcard, TopicA, <<>>}}
  \cup {method_unsubscribe \o t : t \in {Wildcard, TopicA}}
  \cup {method_publish \o TopicA \o <<msg_delim>> \o Payload,
        method_publish \o TopicA,
        <<"G", "E", "T", "!">> \o TopicA}

\* the positions at the end of the loop body
LoopEnd == {"publish", "subscribe", "unsubscribe", "invalid", "recv_failed"}

\* the positions inside a handler
InHandler ==
  {"at_publish", "publish_topic", "at_subscribe", "subscribe_slots",
   "at_unsubscribe", "unsubscribe_reclaim"}

\* a step inside handler at position pos; buffer and client_addr are not
\* written by the handlers
StepAt(pos) ==
  /\ ~crashed
  /\ handler = pos
  /\ UNCHANGED <<buffer, client_addr, map_before>>

\* the handler h returns r with the map left as m
StepReturn(h, r, m) ==
  /\ handler' = h
  /\ ret' = r
  /\ topic_subs_map' = m
  /\ UNCHANGED <<sent, crashed>>

\* recvfrom delivered buf from addr, and the dispatch chose the handler
StepReceive(buf, addr) ==
  /\ AtReceive
  /\ map_before' = topic_subs_map
  /\ buffer' = buf
  /\ client_addr' = addr
  /\ handler' = CASE Dispatch(buf) = "publish" -> "at_publish"
                  [] Dispatch(buf) = "subscribe" -> "at_subscribe"
                  [] Dispatch(buf) = "unsubscribe" -> "at_unsubscribe"
                  [] OTHER -> "invalid"
  /\ ret' = NoRet
  /\ sent' = <<>>
  /\ UNCHANGED <<topic_subs_map, crashed, subscribed>>

\* handle_subscribe up to the return of find_or_insert_topic_sub
StepSubscribeFind ==
  /\ StepAt("at_subscribe")
  /\ LET topic == SubscribeTopic(buffer)
     IN  IF topic = NULL THEN Fault /\ handler' = "subscribe"
         ELSE IF validate_topic(Deref(topic), TRUE) # 0
         THEN StepReturn("subscribe", 1, topic_subs_map)
              /\ UNCHANGED subscribed
         ELSE LET fi == find_or_insert_topic_sub(topic_subs_map, Deref(topic))
              IN  IF fi.idx = NoEntry
                  THEN StepReturn("subscribe", 1, fi.map)
                       /\ UNCHANGED subscribed
                  ELSE /\ topic_subs_map' = fi.map
                       /\ handler' = "subscribe_slots"
                       /\ UNCHANGED <<ret, sent, crashed, subscribed>>

\* the loops of handle_subscribe over the slots of topic_struct, which
\* points to the entry find_topic_sub returns for the topic
StepSubscribeSlots ==
  /\ StepAt("subscribe_slots")
  /\ LET topic == Deref(SubscribeTopic(buffer))
         out   == AddSubscriber(topic_subs_map,
                                find_topic_sub(topic_subs_map, topic),
                                client_addr)
     IN  /\ StepReturn("subscribe", out.ret, out.map)
         /\ subscribed' = IF out.ret = 0
                          THEN subscribed \cup {<<client_addr, topic>>}
                          ELSE subscribed

\* handle_unsubscribe up to the call of set_addr_empty
StepUnsubscribeClear ==
  /\ StepAt("at_unsubscribe")
  /\ LET topic == SubscribeTopic(buffer)
     IN  IF topic = NULL THEN Fault /\ handler' = "unsubscribe"
         ELSE IF validate_topic(Deref(topic), TRUE) # 0
         THEN StepReturn("unsubscribe", 1, topic_subs_map)
              /\ UNCHANGED subscribed
         ELSE LET found == find_topic_sub(topic_subs_map, Deref(topic))
                  hits  == IF found = NoEntry THEN {}
                           ELSE {k \in SubIdx :
                                   is_same_address(
                                     topic_subs_map[found].sub_addresses[k],
                                     client_addr)}
              IN  IF hits = {}
                  THEN /\ StepReturn("unsubscribe", 0, topic_subs_map)
                       /\ subscribed' =
                            subscribed \ {<<client_addr, Deref(topic)>>}
                  ELSE LET k == CHOOSE k \in hits : \A j \in hits : k <= j
                       IN  /\ topic_subs_map' =
                                [topic_subs_map EXCEPT
                                   ![found].sub_addresses[k] = EmptyAddr]
                           /\ handler' = "unsubscribe_reclaim"
                           /\ UNCHANGED <<ret, sent, crashed, subscribed>>

\* the call of remove_unused_topic on topic_struct and the return
StepUnsubscribeReclaim ==
  /\ StepAt("unsubscribe_reclaim")
  /\ LET topic == Deref(SubscribeTopic(buffer))
     IN  /\ StepReturn("unsubscribe", 0,
                       remove_unused_topic(
                         topic_subs_map,
                         find_topic_sub(topic_subs_map, topic)))
         /\ subscribed' = subscribed \ {<<client_addr, topic>>}

\* handle_publish up to the end of the loop over the wildcard entry
StepPublishWildcard ==
  /\ StepAt("at_publish")
  /\ LET topic   == PublishTopic(buffer)
         message == PublishMessage(buffer)
     IN  IF topic = NULL THEN Fault /\ handler' = "publish"
         ELSE IF validate_topic(Deref(topic), FALSE) # 0
         THEN StepReturn("publish", 1, topic_subs_map) /\ UNCHANGED subscribed
         ELSE IF message = NULL THEN Fault /\ handler' = "publish"
         ELSE IF strchr_found(Deref(message), msg_delim)
         THEN StepReturn("publish", 1, topic_subs_map) /\ UNCHANGED subscribed
         ELSE LET wild == OccupiedSubs(topic_subs_map, INDEX_WILDCARD_TOPIC)
              IN  /\ \E F \in FailSets(Len(wild)) :
                       sent' = SendAll(Deref(message), wild, F)
                  /\ handler' = "publish_topic"
                  /\ UNCHANGED <<topic_subs_map, ret, crashed, subscribed>>

\* find_topic_sub, the loop over the entry found, and the return
StepPublishTopic ==
  /\ StepAt("publish_topic")
  /\ LET found == find_topic_sub(topic_subs_map, Deref(PublishTopic(buffer)))
         dests == IF found = NoEntry THEN <<>>
                  ELSE OccupiedSubs(topic_subs_map, found)
     IN  /\ \E F \in FailSets(Len(dests)) :
              sent' = sent \o SendAll(Deref(PublishMessage(buffer)), dests, F)
         /\ handler' = "publish"
         /\ ret' = 0
         /\ UNCHANGED <<topic_subs_map, crashed, subscribed>>

\* the end of the loop body, reached from the end of a handler only
StepNextIteration ==
  /\ handler \in LoopEnd
  /\ NextIteration

NextSteps ==
  \/ \E buf \in StepsDatagrams, addr \in Clients : StepReceive(buf, addr)
  \/ StepSubscribeFind
  \/ StepSubscribeSlots
  \/ StepUnsubscribeClear
  \/ StepUnsubscribeReclaim
  \/ StepPublishWildcard
  \/ StepPublishTopic
  \/ ReceiveFailed
  \/ StepNextIteration

SpecSteps == Init /\ [][NextSteps]_vars

----------------------------------------------------------------------------
(* Vocabulary of the properties *)

\* a handler ran in this iteration and returned r
Returned(h, r) == handler = h /\ ret = r

\* the fields of the request in buffer, as its handler isolates them
RequestTopic ==
  IF handler = "publish" THEN PublishTopic(buffer) ELSE SubscribeTopic(buffer)

\* the addresses sendto was called with in this iteration
Recipients == {sent[i].dest : i \in 1 .. Len(sent)}

\* the number of sendto calls of this iteration addressed to e
Copies(e) == Cardinality({i \in 1 .. Len(sent) : sent[i].dest = e})

\* endpoint e is subscribed to topic t: its last successful request for t was
\* a subscribe
IsSubscribed(e, t) == <<e, t>> \in subscribed

\* the endpoints stored in slot i
Members(m, i) ==
  {m[i].sub_addresses[k] : k \in {j \in SubIdx : Occupied(m[i].sub_addresses[j])}}

\* the slots that hold the name t
SlotsNamed(m, t) == {i \in MapIdx : m[i].topic = t}

----------------------------------------------------------------------------
(* C1 *)

\* C1: after any sequence of requests, slot 0 still holds the wildcard topic
\* name "#"; it is not reset to the empty name when the last wildcard
\* subscriber unsubscribes.
C1_WildcardSlotKept ==
  topic_subs_map[INDEX_WILDCARD_TOPIC].topic = Wildcard

----------------------------------------------------------------------------
(* C2 *)

\* C2: a valid publish to topic T sends copies only to endpoints that are
\* subscribed to T or to the wildcard topic "#".
C2_OnlySubscribersReceive ==
  Returned("publish", 0) =>
    \A e \in Recipients :
      IsSubscribed(e, Deref(RequestTopic)) \/ IsSubscribed(e, Wildcard)

----------------------------------------------------------------------------
(* C3 *)

\* C3: every endpoint subscribed to "#" is sent the payload of every valid
\* publish, whatever the published topic.
C3_WildcardSubscribersReceive ==
  Returned("publish", 0) =>
    \A e \in Clients :
      IsSubscribed(e, Wildcard) =>
        \E i \in 1 .. Len(sent) :
          sent[i].dest = e /\ sent[i].message = Deref(PublishMessage(buffer))

----------------------------------------------------------------------------
(* C4 *)

\* C4: every endpoint that subscribed to a non-wildcard topic T and has not
\* unsubscribed from T since is sent the unmodified payload of every valid
\* publish to T.
C4_TopicSubscribersReceive ==
  Returned("publish", 0) =>
    \A e \in Clients :
      IsSubscribed(e, Deref(RequestTopic)) =>
        \E i \in 1 .. Len(sent) :
          sent[i].dest = e /\ sent[i].message = Deref(PublishMessage(buffer))

----------------------------------------------------------------------------
(* C5 *)

\* C5: the lookup of a request's topic returns an entry only when the
\* entry's stored name equals the requested topic in every character.
C5_LookupMatchesFullName ==
  (handler \in {"publish", "subscribe", "unsubscribe"} /\ ret = 0) =>
    LET i == find_topic_sub(topic_subs_map, Deref(RequestTopic))
    IN  i # NoEntry => topic_subs_map[i].topic = Deref(RequestTopic)

----------------------------------------------------------------------------
(* C6 *)

\* requests with a recognised method tag and a missing field
MissingFieldDatagrams ==
  {method_subscribe, method_unsubscribe, method_publish,
   method_publish \o TopicA, method_publish \o TopicA \o <<msg_delim>>}

\* C6: a request with a recognised method tag but a missing field does not
\* terminate the broker: it is dropped with the Directory unchanged and no
\* datagram sent.
C6_MissingFieldDropped ==
  (handler # "none" /\ buffer \in MissingFieldDatagrams) =>
    (~crashed /\ topic_subs_map = map_before /\ sent = <<>>)

----------------------------------------------------------------------------
(* C7 *)

\* the request in buffer names a topic that is too long, that contains the
\* delimiter or, in a publish, the wildcard character, or it is a publish
\* whose payload contains the delimiter
C7_FailsValidation ==
  /\ handler \in {"publish", "subscribe", "unsubscribe"}
  /\ RequestTopic # NULL
  /\ \/ Len(Deref(RequestTopic)) > TOPIC_LENGTH - 1
     \/ \E i \in 1 .. Len(Deref(RequestTopic)) :
          Deref(RequestTopic)[i] = msg_delim
     \/ /\ handler = "publish"
        /\ \E i \in 1 .. Len(Deref(RequestTopic)) :
             Deref(RequestTopic)[i] = topic_wildcard
     \/ /\ handler = "publish"
        /\ PublishMessage(buffer) # NULL
        /\ \E i \in 1 .. Len(Deref(PublishMessage(buffer))) :
             Deref(PublishMessage(buffer))[i] = msg_delim

\* C7: a request that fails validation is dropped before any effect: the
\* handler returns 1, the Directory is as it was and no datagram is sent.
C7_InvalidRequestDropped ==
  C7_FailsValidation =>
    (ret = 1 /\ ~crashed /\ topic_subs_map = map_before /\ sent = <<>>)

\* a publish with a delimiter in its payload is dropped although its topic
\* has a subscriber and the wildcard entry has one
C7_Witness ==
  /\ C7_FailsValidation
  /\ handler = "publish"
  /\ Deref(RequestTopic) = TopicA
  /\ OccupiedSubs(topic_subs_map, INDEX_WILDCARD_TOPIC) # <<>>
  /\ \E i \in SlotsNamed(topic_subs_map, TopicA) :
       Members(topic_subs_map, i) # {}
  /\ ret = 1
  /\ sent = <<>>

----------------------------------------------------------------------------
(* C8 *)

\* the request in buffer is a subscribe for a valid topic from an endpoint
\* that the entry of that name contained when it arrived
C8_AlreadySubscribed ==
  /\ handler = "subscribe"
  /\ RequestTopic # NULL
  /\ validate_topic(Deref(RequestTopic), TRUE) = 0
  /\ \E i \in SlotsNamed(map_before, Deref(RequestTopic)) :
       client_addr \in Members(map_before, i)

\* C8: a subscribe of an endpoint to a topic it is already subscribed to
\* returns success and leaves the whole Directory unchanged, also when all
\* subscriber slots of the topic are occupied.
C8_SubscribeIdempotent ==
  C8_AlreadySubscribed => (ret = 0 /\ topic_subs_map = map_before)

\* a repeated subscribe to a topic whose subscriber slots were all occupied
C8_Witness ==
  /\ C8_AlreadySubscribed
  /\ \E i \in SlotsNamed(map_before, Deref(RequestTopic)) :
       /\ client_addr \in Members(map_before, i)
       /\ \A k \in SubIdx : Occupied(map_before[i].sub_addresses[k])
  /\ ret = 0

----------------------------------------------------------------------------
(* C9 *)

\* the request in buffer is an unsubscribe for a valid topic from an
\* endpoint that no entry of that name contained when it arrived
C9_NotSubscribed ==
  /\ handler = "unsubscribe"
  /\ RequestTopic # NULL
  /\ validate_topic(Deref(RequestTopic), TRUE) = 0
  /\ \A i \in SlotsNamed(map_before, Deref(RequestTopic)) :
       client_addr \notin Members(map_before, i)

\* C9: unsubscribing an endpoint from a topic it is not subscribed to (the
\* topic has no entry, or its entry does not contain the endpoint) returns
\* success and leaves the Directory unchanged in every slot.
C9_UnsubscribeAbsentIsNoOp ==
  C9_NotSubscribed => (ret = 0 /\ topic_subs_map = map_before)

----------------------------------------------------------------------------
(* C10 *)

\* the free slots of a map
FreeSlots(m) == {i \in MapIdx : m[i].topic = empty_topic}

\* C10, first half: when the only subscriber of a non-wildcard topic
\* unsubscribes, the topic's slot is free after that request: its name is
\* empty and so are all its subscriber slots.
C10_LastUnsubscribeFreesSlot ==
  (handler = "unsubscribe" /\ RequestTopic # NULL) =>
    \A i \in SlotsNamed(map_before, Deref(RequestTopic)) :
      (Deref(RequestTopic) # Wildcard
         /\ Members(map_before, i) = {client_addr}) =>
        (topic_subs_map[i].topic = empty_topic
           /\ Members(topic_subs_map, i) = {})

\* C10, second half: a subscribe to a valid topic name that no entry holds
\* succeeds when a single slot is free, by claiming that slot.
C10_FreedSlotIsReused ==
  (handler = "subscribe" /\ RequestTopic # NULL) =>
    \A f \in MapIdx :
      (validate_topic(Deref(RequestTopic), TRUE) = 0
         /\ SlotsNamed(map_before, Deref(RequestTopic)) = {}
         /\ FreeSlots(map_before) = {f}) =>
        (ret = 0
           /\ topic_subs_map[f].topic = Deref(RequestTopic)
           /\ client_addr \in Members(topic_subs_map, f))

\* C10: the last unsubscribe from a non-wildcard topic frees its slot in the
\* same request, and a later subscribe to a distinct topic name succeeds by
\* claiming that slot even if every other slot is occupied.
C10_ReclaimAndReuse == C10_LastUnsubscribeFreesSlot /\ C10_FreedSlotIsReused

----------------------------------------------------------------------------
(* C11 *)

\* the slots of a map that hold a topic other than the wildcard topic
NonWildcardSlots(m) == {i \in MapIdx : m[i].topic \notin {empty_topic, Wildcard}}

\* the request in buffer is a subscribe for a valid non-wildcard topic that
\* no entry was named after when it arrived, and the map then held
\* TOPIC_SUBS_MAP_LENGTH - 1 non-wildcard topics
C11_TenthTopic ==
  /\ handler = "subscribe"
  /\ RequestTopic # NULL
  /\ validate_topic(Deref(RequestTopic), TRUE) = 0
  /\ Deref(RequestTopic) # Wildcard
  /\ SlotsNamed(map_before, Deref(RequestTopic)) = {}
  /\ Cardinality(NonWildcardSlots(map_before)) = TOPIC_SUBS_MAP_LENGTH - 1

\* C11: once 9 distinct non-wildcard topics are occupied, a subscribe to a
\* 10th distinct non-wildcard topic returns the error code and leaves the
\* Directory unchanged.
C11_TopicCapacityExceeded ==
  C11_TenthTopic => (ret = 1 /\ topic_subs_map = map_before)

----------------------------------------------------------------------------
(* C12 *)

\* the request in buffer is a subscribe for a valid topic whose entry had
\* every subscriber slot occupied, by endpoints other than the requester
C12_EntryFull ==
  /\ handler = "subscribe"
  /\ RequestTopic # NULL
  /\ validate_topic(Deref(RequestTopic), TRUE) = 0
  /\ \E i \in SlotsNamed(map_before, Deref(RequestTopic)) :
       /\ Cardinality(Members(map_before, i)) = SUB_ADDRESSES_LENGTH
       /\ client_addr \notin Members(map_before, i)

\* C12: when a topic has 10 distinct endpoints subscribed, a subscribe from a
\* further endpoint returns the error code and leaves the Directory
\* unchanged.
C12_SubscriberCapacityExceeded ==
  C12_EntryFull => (ret = 1 /\ topic_subs_map = map_before)

\* a further endpoint was turned away from a full entry
C12_Witness == C12_EntryFull /\ ret = 1

----------------------------------------------------------------------------
(* C13 *)

\* C13: for a valid publish to topic T, the number of copies sent to an
\* endpoint is 1 if it is subscribed to T, plus 1 if it is subscribed to
\* "#".
C13_CopiesPerEndpoint ==
  Returned("publish", 0) =>
    \A e \in Clients :
      Copies(e) = (IF IsSubscribed(e, Deref(RequestTopic)) THEN 1 ELSE 0)
                  + (IF IsSubscribed(e, Wildcard) THEN 1 ELSE 0)

----------------------------------------------------------------------------
(* C14 *)

\* C14: handling a subscribe or an unsubscribe request sends no datagram,
\* whatever its outcome; datagrams are sent only by a publish that passed
\* validation.
C14_OnlyPublishSends ==
  /\ handler \in {"subscribe", "unsubscribe"} => sent = <<>>
  /\ sent # <<>> => Returned("publish", 0)

\* a subscribe succeeded and changed the map
C14_Witness ==
  Returned("subscribe", 0) /\ topic_subs_map # map_before

----------------------------------------------------------------------------
(* C15 *)

\* the addresses handle_publish gathers for the request in buffer: the
\* occupied slots of the wildcard entry, then those of the entry found for
\* the topic
C15_Gathered ==
  LET found == find_topic_sub(map_before, Deref(RequestTopic))
  IN  OccupiedSubs(map_before, INDEX_WILDCARD_TOPIC)
        \o (IF found = NoEntry THEN <<>> ELSE OccupiedSubs(map_before, found))

\* a sendto call of this iteration failed
C15_SendFailed ==
  handler = "publish" /\ \E i \in 1 .. Len(sent) : ~sent[i].ok

----------------------------------------------------------------------------
(* C16 *)

\* the datagram in buffer begins with the whole of tag
BeginsWith(tag) ==
  Len(buffer) >= Len(tag) /\ SubSeq(buffer, 1, Len(tag)) = tag

\* C16: a datagram is handled as publish, subscribe or unsubscribe only if it
\* begins with exactly "PUB!", "SUB!" or "UNSUB!"; any other datagram is
\* dropped with the Directory unchanged.
C16_ExactMethodTags ==
  /\ handler = "publish" => BeginsWith(method_publish)
  /\ handler = "subscribe" => BeginsWith(method_subscribe)
  /\ handler = "unsubscribe" => BeginsWith(method_unsubscribe)
  /\ ( /\ handler \in {"publish", "subscribe", "unsubscribe", "invalid"}
       /\ ~BeginsWith(method_publish)
       /\ ~BeginsWith(method_subscribe)
       /\ ~BeginsWith(method_unsubscribe) )
     => (~crashed /\ topic_subs_map = map_before)

----------------------------------------------------------------------------
(* C17 *)

\* C17: no two occupied slots of the map hold the same topic name.
C17_TopicNamesUnique ==
  \A i, j \in MapIdx :
    (i # j /\ topic_subs_map[i].topic # empty_topic)
      => topic_subs_map[i].topic # topic_subs_map[j].topic

\* a second endpoint subscribed to "#" while the entry for "#" was in a slot
\* other than slot 0, and the request found that entry
C17_Witness ==
  /\ Returned("subscribe", 0)
  /\ RequestTopic = Ptr(Wildcard)
  /\ \E i \in SlotsNamed(map_before, Wildcard) :
       /\ i # INDEX_WILDCARD_TOPIC
       /\ client_addr \notin Members(map_before, i)
       /\ client_addr \in Members(topic_subs_map, i)

----------------------------------------------------------------------------
(* C18 *)

\* C18: no entry holds the same endpoint (same IP and same port) in two of
\* its subscriber slots.
C18_NoDuplicateSubscriber ==
  \A i \in MapIdx : \A k, j \in SubIdx :
    (k # j /\ Occupied(topic_subs_map[i].sub_addresses[k]))
      => topic_subs_map[i].sub_addresses[k] # topic_subs_map[i].sub_addresses[j]

\* an endpoint subscribed again to an entry that holds it and another
\* endpoint of the same IP
C18_Witness ==
  /\ Returned("subscribe", 0)
  /\ \E i \in SlotsNamed(map_before, Deref(RequestTopic)) :
       /\ client_addr \in Members(map_before, i)
       /\ \E e \in Members(topic_subs_map, i) :
            e.s_addr = client_addr.s_addr /\ e.sin_port # client_addr.sin_port

----------------------------------------------------------------------------
(* C19 *)

\* C19: between requests, every slot that holds a topic other than "#" has
\* at least one occupied subscriber slot.
C19_NoEmptyTopicEntry ==
  \A i \in NonWildcardSlots(topic_subs_map) : Members(topic_subs_map, i) # {}

\* an unsubscribe emptied the entry of a non-wildcard topic and the slot was
\* freed
C19_Witness ==
  /\ Returned("unsubscribe", 0)
  /\ \E i \in NonWildcardSlots(map_before) :
       topic_subs_map[i].topic = empty_topic

----------------------------------------------------------------------------
(* C20 *)

\* the datagram in buffer is a publish whose method tag is directly followed
\* by a second delimiter
C20_EmptyTopicField ==
  /\ handler = "publish"
  /\ Len(buffer) > Len(method_publish)
  /\ buffer[Len(method_publish) + 1] = msg_delim

\* C20: a publish datagram whose topic field is empty is rejected: the
\* handler returns the error code and nothing is sent to any endpoint.
C20_EmptyTopicRejected ==
  C20_EmptyTopicField => (ret = 1 /\ sent = <<>>)

----------------------------------------------------------------------------
(* C21 *)

\* the slots a subscribe of this iteration took for a new topic
C21_Claimed ==
  {i \in MapIdx : /\ Returned("subscribe", 0)
                  /\ map_before[i].topic = empty_topic
                  /\ topic_subs_map[i].topic # empty_topic}

\* C21: every slot with the empty name has all its subscriber slots empty,
\* and an entry created by a subscribe for a new topic holds exactly the
\* subscribing endpoint; a subscribe that finds a free slot succeeds.
C21_FreeSlotsAreEmpty ==
  /\ \A i \in MapIdx :
       topic_subs_map[i].topic = empty_topic => Members(topic_subs_map, i) = {}
  /\ \A i \in C21_Claimed : Members(topic_subs_map, i) = {client_addr}
  /\ ( /\ handler = "subscribe"
       /\ topic_subs_map # map_before
       /\ \E i \in MapIdx : map_before[i].topic = empty_topic )
     => ret = 0

\* slot 0 was freed by an earlier unsubscribe and a subscribe took it for a
\* new topic
C21_Witness ==
  /\ INDEX_WILDCARD_TOPIC \in C21_Claimed
  /\ topic_subs_map[INDEX_WILDCARD_TOPIC].topic # Wildcard

----------------------------------------------------------------------------
(* C22 *)

\* C22: a publish request, valid or not and whether or not its topic has an
\* entry, leaves the map unchanged.
C22_PublishLeavesMap ==
  handler = "publish" => topic_subs_map = map_before

\* a valid publish to a topic no entry is named after, while the map has
\* subscribers
C22_Witness ==
  /\ Returned("publish", 0)
  /\ SlotsNamed(map_before, Deref(RequestTopic)) = {}
  /\ \E i \in MapIdx : Members(map_before, i) # {}

----------------------------------------------------------------------------
(* C23 *)

\* the subscriber slots whose content this iteration changed
C23_Written ==
  {ik \in MapIdx \X SubIdx :
     topic_subs_map[ik[1]].sub_addresses[ik[2]]
       # map_before[ik[1]].sub_addresses[ik[2]]}

\* C23: a subscribe from endpoint E writes at most one subscriber slot, an
\* empty one that receives E; an unsubscribe from E writes at most one
\* subscriber slot, one that held E and becomes empty.
C23_OnlyOwnMembership ==
  /\ handler = "subscribe" =>
       /\ Cardinality(C23_Written) <= 1
       /\ \A ik \in C23_Written :
            /\ ~Occupied(map_before[ik[1]].sub_addresses[ik[2]])
            /\ topic_subs_map[ik[1]].sub_addresses[ik[2]] = client_addr
  /\ handler = "unsubscribe" =>
       /\ Cardinality(C23_Written) <= 1
       /\ \A ik \in C23_Written :
            /\ map_before[ik[1]].sub_addresses[ik[2]] = client_addr
            /\ ~Occupied(topic_subs_map[ik[1]].sub_addresses[ik[2]])

\* an endpoint left an entry that holds another endpoint of the same IP
C23_Witness ==
  /\ Returned("unsubscribe", 0)
  /\ \E i \in MapIdx :
       /\ client_addr \in Members(map_before, i)
       /\ client_addr \notin Members(topic_subs_map, i)
       /\ \E e \in Members(topic_subs_map, i) : e.s_addr = client_addr.s_addr

----------------------------------------------------------------------------
(* C24 *)

\* while a request is inside its handler, the step taken belongs to that
\* request: no datagram is received
C24_NoReceiveInHandler ==
  handler \in InHandler =>
    /\ buffer' = buffer
    /\ client_addr' = client_addr
    /\ map_before' = map_before
    /\ handler' \in InHandler \cup LoopEnd

\* a handler that has returned leaves what one uninterrupted call on the map
\* found at recvfrom leaves: the same map and return value, and sends to the
\* same addresses in the same order
C24_AsOneCall ==
  LET out == CASE handler = "publish" -> handle_publish(buffer, map_before)
               [] handler = "subscribe" ->
                    handle_subscribe(buffer, client_addr, map_before)
               [] handler = "unsubscribe" ->
                    handle_unsubscribe(buffer, client_addr, map_before)
               [] OTHER -> Outcome(TRUE, NoRet, map_before, <<>>)
  IN  handler \in {"publish", "subscribe", "unsubscribe"} =>
        IF out.fault THEN topic_subs_map = map_before /\ sent = <<>>
        ELSE /\ topic_subs_map = out.map
             /\ ret = out.ret
             /\ [i \in 1 .. Len(sent) |-> sent[i].dest] = out.dests

\* C24: requests are handled one at a time: between the receipt of a
\* datagram and the return of its handler no other datagram is received, so
\* each handler's effect is that of one uninterrupted call.
C24_OneRequestAtATime ==
  [][C24_NoReceiveInHandler]_vars /\ []C24_AsOneCall

\* the process is between find_or_insert_topic_sub and the slot write of a
\* subscribe that created an entry, while another entry has a subscriber
C24_Witness ==
  /\ handler = "subscribe_slots"
  /\ \E i \in MapIdx :
       /\ map_before[i].topic = empty_topic
       /\ topic_subs_map[i].topic = Deref(SubscribeTopic(buffer))
       /\ Members(topic_subs_map, i) = {}
  /\ \E j \in MapIdx : Members(topic_subs_map, j) # {}

====
